---- MODULE Spec2Model ----
(***************************************************************************)
(* A model of advanced-vector/vector.h: RawMemory<T> (an owning pointer to *)
(* raw storage) and Vector<T> (a RawMemory plus the count of constructed   *)
(* elements).                                                              *)
(*                                                                         *)
(* The heap is a finite set of addresses; each allocated region is a       *)
(* sequence of slots, a slot being raw memory or a constructed element     *)
(* with a value.  Every public operation of Vector is one action that      *)
(* runs the operation's code to its end, including the destructors of its  *)
(* locals and the stack unwinding after an exception.                      *)
(*                                                                         *)
(* The element type T is a parameter of the template: it is fixed in Init  *)
(* to one of three kinds that select the branches of                       *)
(* RawMemory::CopyOrMoveData.  A moved-from T holds the value-initialized  *)
(* value (as std::string or std::unique_ptr do).                           *)
(*                                                                         *)
(* Exceptions: the input `fault` of an action is the index of the fallible *)
(* step (operator new, an element constructor or assignment that may       *)
(* throw) that fails; 0 means none.                                        *)
(***************************************************************************)
EXTENDS Integers, Sequences, FiniteSets, TLC

\* ---------------------------------------------------------------- bounds
\* Element slots that the regions of the heap may hold in total between two
\* calls; also the largest size or capacity a call may ask for.
MaxCap == 4
\* Number of heap addresses.
NumAddr == 3
\* Largest index of a fallible step that an action may make fail.
MaxFault == 4

\* ------------------------------------------------------------- constants
Null == 0
Raw == -1
Default == 0
MovedFrom == Default

Values == {0, 1}
Vec == {1, 2}
Addr == 1..NumAddr

\* The kinds of element type T.
\*   NothrowMove : is_nothrow_move_constructible, copy-constructible
\*   ThrowingMove: move may throw, copy-constructible
\*   MoveOnly    : move may throw, not copy-constructible
ElemTypes == {"NothrowMove", "ThrowingMove", "MoveOnly"}

VARIABLES
    heap,   \* [Addr -> [alloc, slots]]: the raw regions and what their slots hold
    vec,    \* [Vec -> [alive, data_ : [buffer_, capacity_], size_]]: the Vector objects
    ttype,  \* the element type T
    hist    \* [Vec -> [pure, log]]: the values appended to a vector that has seen only appends
            \* (a history variable, kept in the behaviours of SpecOK)

vars == <<heap, vec, ttype, hist>>

is_nothrow_move_constructible_v == ttype = "NothrowMove"
is_copy_constructible_v == ttype # "MoveOnly"

FreeRegion == [alloc |-> FALSE, slots |-> <<>>]
EmptyRawMemory == [buffer_ |-> Null, capacity_ |-> 0]
DeadVector == [alive |-> FALSE, data_ |-> EmptyRawMemory, size_ |-> 0]

\* ------------------------------------------------- the machine of one call
\* m.heap, m.vec : the heap and the Vector objects as the call has left them
\* m.k           : the fallible steps left before one fails (0: none fails)
\* m.exc         : "none", "throw" (an element operation threw) or "badalloc"
\* m.ret         : the value the last step returned
\* m.leaked      : constructed elements released or overwritten without a destructor call
\* m.dd          : a destructor ran on a slot that held no constructed element
Start(fault) == [heap |-> heap, vec |-> vec, k |-> fault, exc |-> "none",
                 ret |-> 0, leaked |-> 0, dd |-> FALSE]

Ok(m) == m.exc = "none"

\* A fallible step: it fails when it is the m.k-th one.
Fails(m, canThrow) == canThrow /\ m.k = 1
Count(m, canThrow) == IF canThrow /\ m.k > 1 THEN m.k - 1 ELSE m.k
Throw(m, what) == [m EXCEPT !.exc = what, !.k = 0]

Slot(m, a, i) == m.heap[a].slots[i + 1]

UsedSlots(h) ==
    LET RECURSIVE Sum(_)
        Sum(a) == IF a = 0 THEN 0 ELSE Len(h[a].slots) + Sum(a - 1)
    IN Sum(NumAddr)

FreeAddrs(h) == {a \in Addr : ~h[a].alloc}

Min(S) == CHOOSE x \in S : \A y \in S : x <= y

LiveCount(slots) == Cardinality({i \in 1..Len(slots) : slots[i] # Raw})

\* RawMemory::Allocate: operator new(n * sizeof(T)) for n != 0, else nullptr.
\* m.ret is the address.  operator new throws bad_alloc when it has no
\* memory to give: when the environment says so, or no address is free.
Allocate(m, n) ==
    IF n = 0 THEN [m EXCEPT !.ret = Null]
    ELSE IF Fails(m, TRUE) \/ FreeAddrs(m.heap) = {}
         THEN Throw(m, "badalloc")
         ELSE LET a == Min(FreeAddrs(m.heap))
              IN [m EXCEPT !.heap[a] = [alloc |-> TRUE, slots |-> [i \in 1..n |-> Raw]],
                           !.k = Count(m, TRUE),
                           !.ret = a]

\* RawMemory::Deallocate: operator delete(buffer); runs no destructor.
Deallocate(m, a) ==
    IF a = Null THEN m
    ELSE [m EXCEPT !.heap[a] = FreeRegion,
                   !.leaked = @ + LiveCount(m.heap[a].slots)]

\* new (p) T(...) with the value val; the constructor may throw when canThrow.
ConstructAt(m, a, i, val, canThrow) ==
    IF Fails(m, canThrow) THEN Throw(m, "throw")
    ELSE [m EXCEPT !.heap[a].slots[i + 1] = val,
                   !.k = Count(m, canThrow),
                   !.leaked = @ + (IF Slot(m, a, i) # Raw THEN 1 ELSE 0)]

\* *p = val; the assignment may throw when canThrow.
AssignAt(m, a, i, val, canThrow) ==
    IF Fails(m, canThrow) THEN Throw(m, "throw")
    ELSE [m EXCEPT !.heap[a].slots[i + 1] = val,
                   !.k = Count(m, canThrow)]

\* std::destroy_n(p, n): destructors do not throw.
DestroyN(m, a, off, n) ==
    IF n = 0 THEN m
    ELSE [m EXCEPT !.heap[a].slots =
                       [j \in 1..Len(@) |-> IF off < j /\ j <= off + n THEN Raw ELSE @[j]],
                   !.dd = @ \/ \E j \in (off + 1)..(off + n) : Slot(m, a, j - 1) = Raw]

\* std::uninitialized_copy_n(src + soff, n, dst + doff): copy-constructs; on a
\* throw destroys what it constructed and rethrows.
RECURSIVE UCopyFrom(_, _, _, _, _, _, _)
UCopyFrom(m, src, soff, n, dst, doff, i) ==
    IF i = n THEN m
    ELSE LET m1 == ConstructAt(m, dst, doff + i, Slot(m, src, soff + i), TRUE)
         IN IF Ok(m1) THEN UCopyFrom(m1, src, soff, n, dst, doff, i + 1)
            ELSE DestroyN(m1, dst, doff, i)

uninitialized_copy_n(m, src, soff, n, dst, doff) == UCopyFrom(m, src, soff, n, dst, doff, 0)

\* std::uninitialized_move_n: move-constructs, leaving each source moved-from.
RECURSIVE UMoveFrom(_, _, _, _, _, _, _)
UMoveFrom(m, src, soff, n, dst, doff, i) ==
    IF i = n THEN m
    ELSE LET m1 == ConstructAt(m, dst, doff + i, Slot(m, src, soff + i),
                               ~is_nothrow_move_constructible_v)
         IN IF Ok(m1)
            THEN UMoveFrom([m1 EXCEPT !.heap[src].slots[soff + i + 1] = MovedFrom],
                           src, soff, n, dst, doff, i + 1)
            ELSE DestroyN(m1, dst, doff, i)

uninitialized_move_n(m, src, soff, n, dst, doff) == UMoveFrom(m, src, soff, n, dst, doff, 0)

\* std::uninitialized_value_construct_n(p + off, n): T() may throw.
RECURSIVE UValueFrom(_, _, _, _, _)
UValueFrom(m, a, off, n, i) ==
    IF i = n THEN m
    ELSE LET m1 == ConstructAt(m, a, off + i, Default, TRUE)
         IN IF Ok(m1) THEN UValueFrom(m1, a, off, n, i + 1)
            ELSE DestroyN(m1, a, off, i)

uninitialized_value_construct_n(m, a, off, n) == UValueFrom(m, a, off, n, 0)

\* std::copy_n(src, n, dst): copy-assigns front to back; a throw stops it.
RECURSIVE CopyFrom(_, _, _, _, _)
CopyFrom(m, src, n, dst, i) ==
    IF i = n THEN m
    ELSE LET m1 == AssignAt(m, dst, i, Slot(m, src, i), TRUE)
         IN IF Ok(m1) THEN CopyFrom(m1, src, n, dst, i + 1) ELSE m1

copy_n(m, src, n, dst) == CopyFrom(m, src, n, dst, 0)

\* a[to] = std::move(a[from])
MoveAssign1(m, a, from, to) ==
    LET m1 == AssignAt(m, a, to, Slot(m, a, from), ~is_nothrow_move_constructible_v)
    IN IF Ok(m1) THEN [m1 EXCEPT !.heap[a].slots[from + 1] = MovedFrom] ELSE m1

\* std::move(a + first, a + lst, a + dfirst): move-assigns front to back.
RECURSIVE move(_, _, _, _, _)
move(m, a, first, lst, dfirst) ==
    IF first >= lst THEN m
    ELSE LET m1 == MoveAssign1(m, a, first, dfirst)
         IN IF Ok(m1) THEN move(m1, a, first + 1, lst, dfirst + 1) ELSE m1

\* std::move_backward(a + first, a + lst, a + dlast): move-assigns back to front.
RECURSIVE move_backward(_, _, _, _, _)
move_backward(m, a, first, lst, dlast) ==
    IF first >= lst THEN m
    ELSE LET m1 == MoveAssign1(m, a, lst - 1, dlast - 1)
         IN IF Ok(m1) THEN move_backward(m1, a, first, lst - 1, dlast - 1) ELSE m1

\* CopyOrMoveData that always moves (no if constexpr).
CopyOrMoveDataAlwaysMoves(m, data, off, count, new_place, noff) ==
    uninitialized_move_n(m, data, off, count, new_place, noff)

\* RawMemory::CopyOrMoveData
CopyOrMoveData(m, data, off, count, new_place, noff) ==
    IF is_nothrow_move_constructible_v \/ ~is_copy_constructible_v
    THEN uninitialized_move_n(m, data, off, count, new_place, noff)
    ELSE uninitialized_copy_n(m, data, off, count, new_place, noff)

\* ------------------------------------------------------------ class Vector
Buffer(m, v) == m.vec[v].data_.buffer_
Size(m, v) == m.vec[v].size_
Capacity(m, v) == m.vec[v].data_.capacity_

Returning(m, r) == IF Ok(m) THEN [m EXCEPT !.ret = r] ELSE [m EXCEPT !.ret = 0]

\* Vector(size_t size): data_(size), size_(size), value-constructs the elements.
\* A throw from the body destroys the member data_.  m.ret is the new object.
SizedConstructor(m, size) ==
    LET m1 == Allocate(m, size)
    IN IF ~Ok(m1) THEN m1
       ELSE LET data == m1.ret
                m2 == uninitialized_value_construct_n(m1, data, 0, size)
            IN IF ~Ok(m2) THEN Deallocate(m2, data)
               ELSE [m2 EXCEPT !.ret = [alive |-> TRUE,
                                        data_ |-> [buffer_ |-> data, capacity_ |-> size],
                                        size_ |-> size]]

\* A copy constructor that copies the members: the new object shares the
\* buffer of other.
CopyConstructorShallow(m, other) ==
    [m EXCEPT !.ret = [alive |-> TRUE, data_ |-> other.data_, size_ |-> other.size_]]

\* Vector(const Vector& other): data_(other.size_), size_(other.size_),
\* copy-constructs the elements.  m.ret is the new object.
CopyConstructor(m, other) ==
    LET m1 == Allocate(m, other.size_)
    IN IF ~Ok(m1) THEN m1
       ELSE LET data == m1.ret
                m2 == uninitialized_copy_n(m1, other.data_.buffer_, 0, other.size_, data, 0)
            IN IF ~Ok(m2) THEN Deallocate(m2, data)
               ELSE [m2 EXCEPT !.ret = [alive |-> TRUE,
                                        data_ |-> [buffer_ |-> data, capacity_ |-> other.size_],
                                        size_ |-> other.size_]]

\* A move constructor that leaves other.size_ as it was.
MoveConstructorKeepsSize(m, v, other) ==
    [m EXCEPT !.vec[v] = [alive |-> TRUE,
                          data_ |-> [buffer_ |-> m.vec[other].data_.buffer_,
                                     capacity_ |-> m.vec[other].data_.capacity_],
                          size_ |-> m.vec[other].size_],
              !.vec[other] = [alive |-> TRUE, data_ |-> EmptyRawMemory,
                              size_ |-> m.vec[other].size_]]

\* Vector(Vector&& other) noexcept on the object v: RawMemory(RawMemory&&)
\* exchanges buffer_ and capacity_ with nullptr and 0, then size_ with 0.
MoveConstructor(m, v, other) ==
    [m EXCEPT !.vec[v] = [alive |-> TRUE,
                          data_ |-> [buffer_ |-> m.vec[other].data_.buffer_,
                                     capacity_ |-> m.vec[other].data_.capacity_],
                          size_ |-> m.vec[other].size_],
              !.vec[other] = [alive |-> TRUE, data_ |-> EmptyRawMemory, size_ |-> 0]]

\* ~Vector() of the object value self: destroy_n, then ~RawMemory deallocates.
Destructor(m, self) ==
    Deallocate(DestroyN(m, self.data_.buffer_, 0, self.size_), self.data_.buffer_)

\* Vector::Swap: RawMemory::Swap and std::swap(size_, other.size_).
Swap(m, v, other) ==
    [m EXCEPT !.vec[v] = m.vec[other], !.vec[other] = m.vec[v]]

\* A copy assignment that always copies and swaps, whatever the capacity.
CopyAssignmentAlwaysSwaps(m, v, r) ==
    IF v = r THEN m
    ELSE LET m1 == CopyConstructor(m, m.vec[r])
         IN IF ~Ok(m1) THEN m1
            ELSE Destructor([m1 EXCEPT !.vec[v] = m1.ret], m.vec[v])

\* Vector& operator=(const Vector& rhs)
CopyAssignment(m, v, r) ==
    IF v = r THEN m
    ELSE LET self == m.vec[v]
             rhs == m.vec[r]
         IN IF rhs.size_ > self.data_.capacity_
            THEN \* Vector rhs_copy(rhs); Swap(rhs_copy); ~rhs_copy
                 LET m1 == CopyConstructor(m, rhs)
                 IN IF ~Ok(m1) THEN m1
                    ELSE Destructor([m1 EXCEPT !.vec[v] = m1.ret], self)
            ELSE LET count == IF rhs.size_ < self.size_ THEN rhs.size_ ELSE self.size_
                     m1 == copy_n(m, rhs.data_.buffer_, count, self.data_.buffer_)
                 IN IF ~Ok(m1) THEN m1
                    ELSE IF rhs.size_ < self.size_
                         THEN [DestroyN(m1, self.data_.buffer_, rhs.size_,
                                        self.size_ - rhs.size_)
                                   EXCEPT !.vec[v].size_ = rhs.size_]
                         ELSE LET m2 == uninitialized_copy_n(m1, rhs.data_.buffer_, self.size_,
                                                             rhs.size_ - self.size_,
                                                             self.data_.buffer_, self.size_)
                              IN IF ~Ok(m2) THEN m2
                                 ELSE [m2 EXCEPT !.vec[v].size_ = rhs.size_]

\* A region that no RawMemory points to any more can be neither reached nor
\* released.  Its address stays allocated for good; its elements, which no
\* destructor will see, are counted as leaked and its contents forgotten.
LostRegion == [alloc |-> TRUE, slots |-> <<>>]

Unreferenced(m, a) == a # Null /\ \A w \in Vec : m.vec[w].data_.buffer_ # a

Dropped(m, a) ==
    IF Unreferenced(m, a)
    THEN [m EXCEPT !.heap[a] = LostRegion,
                   !.leaked = @ + LiveCount(m.heap[a].slots)]
    ELSE m

\* RawMemory& operator=(RawMemory&& other) noexcept, on the data_ of v and r:
\* buffer_ = exchange(other.buffer_, nullptr); capacity_ = exchange(
\* other.capacity_, 0).  Each exchange reads the source, clears it, then
\* writes the target; the target's old buffer_ is not deallocated.
RawMemoryMoveAssignment(m, v, r) ==
    LET b == m.vec[r].data_.buffer_
        m1 == [[m EXCEPT !.vec[r].data_.buffer_ = Null] EXCEPT !.vec[v].data_.buffer_ = b]
        c == m1.vec[r].data_.capacity_
    IN [[m1 EXCEPT !.vec[r].data_.capacity_ = 0] EXCEPT !.vec[v].data_.capacity_ = c]

\* Vector& operator=(Vector&& rhs) noexcept: data_ = std::move(rhs.data_);
\* size_ = std::exchange(rhs.size_, 0).
MoveAssignment(m, v, r) ==
    LET m1 == RawMemoryMoveAssignment(m, v, r)
        s == m1.vec[r].size_
    IN Dropped([[m1 EXCEPT !.vec[r].size_ = 0] EXCEPT !.vec[v].size_ = s],
               m.vec[v].data_.buffer_)

\* Reserve that returns early only when new_capacity < Capacity().
ReserveAlsoWhenEqual(m, v, new_capacity) ==
    IF new_capacity < Capacity(m, v) THEN m
    ELSE LET m1 == Allocate(m, new_capacity)
         IN IF ~Ok(m1) THEN m1
            ELSE LET new_data == m1.ret
                     m2 == CopyOrMoveData(m1, Buffer(m, v), 0, Size(m, v), new_data, 0)
                 IN IF ~Ok(m2) THEN Deallocate(m2, new_data)
                    ELSE Deallocate([DestroyN(m2, Buffer(m, v), 0, Size(m, v))
                                        EXCEPT !.vec[v].data_ = [buffer_ |-> new_data,
                                                                 capacity_ |-> new_capacity]],
                                    Buffer(m, v))

\* Reserve that destroys the elements and releases the buffer before it
\* allocates the new one.
ReserveReleasesFirst(m, v, new_capacity) ==
    IF new_capacity <= Capacity(m, v) THEN m
    ELSE LET m0 == [Deallocate(DestroyN(m, Buffer(m, v), 0, Size(m, v)), Buffer(m, v))
                        EXCEPT !.vec[v] = [alive |-> TRUE, data_ |-> EmptyRawMemory,
                                           size_ |-> 0]]
             m1 == Allocate(m0, new_capacity)
         IN IF ~Ok(m1) THEN m1
            ELSE [m1 EXCEPT !.vec[v].data_ = [buffer_ |-> m1.ret,
                                              capacity_ |-> new_capacity]]

\* void Reserve(size_t new_capacity)
Reserve(m, v, new_capacity) ==
    IF new_capacity <= Capacity(m, v) THEN m
    ELSE LET m1 == Allocate(m, new_capacity)
         IN IF ~Ok(m1) THEN m1
            ELSE LET new_data == m1.ret
                     m2 == CopyOrMoveData(m1, Buffer(m, v), 0, Size(m, v), new_data, 0)
                 IN IF ~Ok(m2) THEN Deallocate(m2, new_data)
                    ELSE \* destroy_n; data_.Swap(new_data); ~new_data
                         Deallocate([DestroyN(m2, Buffer(m, v), 0, Size(m, v))
                                        EXCEPT !.vec[v].data_ = [buffer_ |-> new_data,
                                                                 capacity_ |-> new_capacity]],
                                    Buffer(m, v))

\* T& operator[](size_t index), written through: v[index] = val.
WriteAt(m, v, index, val) == AssignAt(m, Buffer(m, v), index, val, TRUE)

\* Resize that shrinks by setting size_ only, destroying nothing.
ResizeNoDestroy(m, v, new_size) ==
    IF new_size <= Size(m, v)
    THEN [m EXCEPT !.vec[v].size_ = new_size]
    ELSE LET m1 == Reserve(m, v, new_size)
         IN IF ~Ok(m1) THEN m1
            ELSE LET m2 == uninitialized_value_construct_n(m1, Buffer(m1, v), Size(m, v),
                                                           new_size - Size(m, v))
                 IN IF ~Ok(m2) THEN m2
                    ELSE [m2 EXCEPT !.vec[v].size_ = new_size]

\* void Resize(size_t new_size)
Resize(m, v, new_size) ==
    IF new_size <= Size(m, v)
    THEN [DestroyN(m, Buffer(m, v), new_size, Size(m, v) - new_size)
              EXCEPT !.vec[v].size_ = new_size]
    ELSE LET m1 == Reserve(m, v, new_size)
         IN IF ~Ok(m1) THEN m1
            ELSE LET m2 == uninitialized_value_construct_n(m1, Buffer(m1, v), Size(m, v),
                                                           new_size - Size(m, v))
                 IN IF ~Ok(m2) THEN m2
                    ELSE [m2 EXCEPT !.vec[v].size_ = new_size]

\* PopBack with the decrement of size_ left out.
PopBackKeepsSize(m, v) ==
    DestroyN(m, Buffer(m, v), Size(m, v) - 1, 1)

\* void PopBack() noexcept
PopBack(m, v) ==
    [DestroyN(m, Buffer(m, v), Size(m, v) - 1, 1) EXCEPT !.vec[v].size_ = Size(m, v) - 1]

\* Erase without the shift of the elements after pos.
EraseNoShift(m, v, pos) ==
    Returning([DestroyN(m, Buffer(m, v), Size(m, v) - 1, 1)
                   EXCEPT !.vec[v].size_ = Size(m, v) - 1], pos)

\* iterator Erase(const_iterator pos); pos and m.ret are offsets from begin().
Erase(m, v, pos) ==
    LET m1 == move(m, Buffer(m, v), pos + 1, Size(m, v), pos)
    IN IF ~Ok(m1) THEN m1
       ELSE Returning([DestroyN(m1, Buffer(m, v), Size(m, v) - 1, 1)
                           EXCEPT !.vec[v].size_ = Size(m, v) - 1], pos)

\* Whether T(std::forward<Args>(args)...) may throw: the copy constructor
\* may; the move constructor may unless T is nothrow-move-constructible.
CtorMayThrow(ctor) == ctor = "copy" \/ ~is_nothrow_move_constructible_v

\* A growth by one slot.
GrowByOne(size) == size + 1

\* size_t new_capacity = size_ > 0 ? size_ * 2 : 1 of EmplaceWithRealloc
NewCapacity(size) == IF size > 0 THEN size * 2 ELSE 1

\* EmplaceWithRealloc that destroys the originals of the prefix as soon as
\* the prefix is relocated, before the suffix is.
EmplaceWithReallocEarlyDestroy(m, v, pos, val, ctor) ==
    LET size == Size(m, v)
        new_capacity == NewCapacity(size)
        data == Buffer(m, v)
        m1 == Allocate(m, new_capacity)
    IN IF ~Ok(m1) THEN m1
       ELSE LET new_data == m1.ret
                m2 == ConstructAt(m1, new_data, pos, val, CtorMayThrow(ctor))
            IN IF ~Ok(m2) THEN Deallocate(m2, new_data)
               ELSE LET m3 == CopyOrMoveData(m2, data, 0, pos, new_data, 0)
                    IN IF ~Ok(m3)
                       THEN Deallocate(DestroyN(m3, new_data, pos, 1), new_data)
                       ELSE LET m4 == CopyOrMoveData(DestroyN(m3, data, 0, pos), data, pos,
                                                     size - pos, new_data, pos + 1)
                            IN IF ~Ok(m4)
                               THEN Deallocate(DestroyN(m4, new_data, 0, pos), new_data)
                               ELSE Returning(
                                      Deallocate(
                                        [DestroyN(m4, data, pos, size - pos)
                                           EXCEPT !.vec[v] =
                                               [alive |-> TRUE,
                                                data_ |-> [buffer_ |-> new_data,
                                                           capacity_ |-> new_capacity],
                                                size_ |-> size + 1]],
                                        data),
                                      pos)

\* iterator EmplaceWithRealloc(const_iterator pos, Args&&... args)
EmplaceWithRealloc(m, v, pos, val, ctor) ==
    LET size == Size(m, v)
        new_size == size + 1
        new_capacity == NewCapacity(size)
        offset == pos
        data == Buffer(m, v)
        m1 == Allocate(m, new_capacity)
    IN IF ~Ok(m1) THEN m1
       ELSE LET new_data == m1.ret
                m2 == ConstructAt(m1, new_data, offset, val, CtorMayThrow(ctor))
            IN IF ~Ok(m2) THEN Deallocate(m2, new_data)
               ELSE LET m3 == CopyOrMoveData(m2, data, 0, offset, new_data, 0)
                    IN IF ~Ok(m3)
                       THEN Deallocate(DestroyN(m3, new_data, offset, 1), new_data)
                       ELSE LET m4 == CopyOrMoveData(m3, data, offset, size - offset,
                                                     new_data, offset + 1)
                            IN IF ~Ok(m4)
                               THEN Deallocate(DestroyN(m4, new_data, 0, offset), new_data)
                               ELSE Returning(
                                      Deallocate(
                                        [DestroyN(m4, data, 0, size)
                                           EXCEPT !.vec[v] = [alive |-> TRUE,
                                                              data_ |-> [buffer_ |-> new_data,
                                                                         capacity_ |-> new_capacity],
                                                              size_ |-> new_size]],
                                        data),
                                      offset)

\* EmplaceWithoutRealloc that shifts with std::move, front to back, instead
\* of std::move_backward.
EmplaceWithoutReallocForward(m, v, pos, val, ctor) ==
    LET size == Size(m, v)
        data == Buffer(m, v)
    IN IF pos = size
       THEN LET m1 == ConstructAt(m, data, size, val, CtorMayThrow(ctor))
            IN IF ~Ok(m1) THEN m1
               ELSE Returning([m1 EXCEPT !.vec[v].size_ = size + 1], pos)
       ELSE IF Fails(m, CtorMayThrow(ctor)) THEN Throw(m, "throw")
            ELSE LET m1 == [m EXCEPT !.k = Count(m, CtorMayThrow(ctor))]
                     m2 == ConstructAt(m1, data, size, Slot(m1, data, size - 1),
                                       ~is_nothrow_move_constructible_v)
                 IN IF ~Ok(m2) THEN m2
                    ELSE LET m3 == move([m2 EXCEPT !.heap[data].slots[size] = MovedFrom],
                                        data, pos, size - 1, pos + 1)
                         IN IF ~Ok(m3) THEN m3
                            ELSE LET m4 == AssignAt(m3, data, pos, val,
                                                    ~is_nothrow_move_constructible_v)
                                 IN IF ~Ok(m4) THEN m4
                                    ELSE Returning([m4 EXCEPT !.vec[v].size_ = size + 1], pos)

\* iterator EmplaceWithoutRealloc(const_iterator pos, Args&&... args)
EmplaceWithoutRealloc(m, v, pos, val, ctor) ==
    LET size == Size(m, v)
        new_size == size + 1
        offset == pos
        data == Buffer(m, v)
    IN IF pos = size
       THEN LET m1 == ConstructAt(m, data, size, val, CtorMayThrow(ctor))
            IN IF ~Ok(m1) THEN m1
               ELSE Returning([m1 EXCEPT !.vec[v].size_ = new_size], offset)
       ELSE \* T&& temp = T(args...): the temporary holds val
            IF Fails(m, CtorMayThrow(ctor)) THEN Throw(m, "throw")
            ELSE LET m1 == [m EXCEPT !.k = Count(m, CtorMayThrow(ctor))]
                     m2 == ConstructAt(m1, data, size, Slot(m1, data, size - 1),
                                       ~is_nothrow_move_constructible_v)
                 IN IF ~Ok(m2) THEN m2
                    ELSE LET m3 == move_backward(
                                     [m2 EXCEPT !.heap[data].slots[size] = MovedFrom],
                                     data, offset, size - 1, size)
                         IN IF ~Ok(m3) THEN m3
                            ELSE LET m4 == AssignAt(m3, data, offset, val,
                                                    ~is_nothrow_move_constructible_v)
                                 IN IF ~Ok(m4) THEN m4
                                    ELSE Returning([m4 EXCEPT !.vec[v].size_ = new_size],
                                                   offset)

\* Emplace that takes a new buffer whether or not a slot is spare.
EmplaceAlwaysReallocates(m, v, pos, val, ctor) ==
    EmplaceWithRealloc(m, v, pos, val, ctor)

\* iterator Emplace(const_iterator pos, Args&&... args)
Emplace(m, v, pos, val, ctor) ==
    IF Size(m, v) = Capacity(m, v)
    THEN EmplaceWithRealloc(m, v, pos, val, ctor)
    ELSE EmplaceWithoutRealloc(m, v, pos, val, ctor)

\* EmplaceBack that passes cbegin() for cend().
EmplaceBackAtBegin(m, v, val, ctor) == Emplace(m, v, 0, val, ctor)

\* T& EmplaceBack(Args&&... args): *Emplace(cend(), args...)
EmplaceBack(m, v, val, ctor) == Emplace(m, v, Size(m, v), val, ctor)

\* void PushBack(const T& value) / void PushBack(T&& value)
PushBack(m, v, val, ctor) == EmplaceBack(m, v, val, ctor)

\* iterator Insert(const_iterator pos, const T& value) / (const_iterator pos, T&& value)
Insert(m, v, pos, val, ctor) == Emplace(m, v, pos, val, ctor)

\* The calls v.Insert(pos, v[index]) and v.Insert(pos, std::move(v[index])):
\* the argument is a reference to an element of v itself, read when the code
\* constructs a T from it.  A move construction leaves v[index] moved-from.
TakenFrom(m, a, index, ctor) ==
    IF ctor = "move" THEN [m EXCEPT !.heap[a].slots[index + 1] = MovedFrom] ELSE m

\* EmplaceWithRealloc(pos, v[index]): the new element is constructed in the
\* new buffer from v[index] before any relocation.
EmplaceWithReallocOfElement(m, v, pos, index, ctor) ==
    LET size == Size(m, v)
        new_size == size + 1
        new_capacity == NewCapacity(size)
        offset == pos
        data == Buffer(m, v)
        m1 == Allocate(m, new_capacity)
    IN IF ~Ok(m1) THEN m1
       ELSE LET new_data == m1.ret
                m2 == ConstructAt(m1, new_data, offset, Slot(m1, data, index),
                                  CtorMayThrow(ctor))
            IN IF ~Ok(m2) THEN Deallocate(m2, new_data)
               ELSE LET m3 == CopyOrMoveData(TakenFrom(m2, data, index, ctor),
                                             data, 0, offset, new_data, 0)
                    IN IF ~Ok(m3)
                       THEN Deallocate(DestroyN(m3, new_data, offset, 1), new_data)
                       ELSE LET m4 == CopyOrMoveData(m3, data, offset, size - offset,
                                                     new_data, offset + 1)
                            IN IF ~Ok(m4)
                               THEN Deallocate(DestroyN(m4, new_data, 0, offset), new_data)
                               ELSE Returning(
                                      Deallocate(
                                        [DestroyN(m4, data, 0, size)
                                           EXCEPT !.vec[v] = [alive |-> TRUE,
                                                              data_ |-> [buffer_ |-> new_data,
                                                                         capacity_ |-> new_capacity],
                                                              size_ |-> new_size]],
                                        data),
                                      offset)

\* EmplaceWithoutRealloc(pos, v[index]) that builds no temporary: it shifts
\* the elements and then assigns T(v[index]) to the slot at pos.
EmplaceWithoutReallocNoTemporary(m, v, pos, index, ctor) ==
    LET size == Size(m, v)
        data == Buffer(m, v)
    IN IF pos = size
       THEN LET m1 == ConstructAt(m, data, size, Slot(m, data, index), CtorMayThrow(ctor))
            IN IF ~Ok(m1) THEN m1
               ELSE Returning([TakenFrom(m1, data, index, ctor)
                                   EXCEPT !.vec[v].size_ = size + 1], pos)
       ELSE LET m2 == ConstructAt(m, data, size, Slot(m, data, size - 1),
                                  ~is_nothrow_move_constructible_v)
            IN IF ~Ok(m2) THEN m2
               ELSE LET m3 == move_backward(
                                [m2 EXCEPT !.heap[data].slots[size] = MovedFrom],
                                data, pos, size - 1, size)
                    IN IF ~Ok(m3) THEN m3
                       ELSE LET m4 == AssignAt(m3, data, pos, Slot(m3, data, index),
                                               CtorMayThrow(ctor))
                            IN IF ~Ok(m4) THEN m4
                               ELSE Returning([m4 EXCEPT !.vec[v].size_ = size + 1], pos)

\* EmplaceWithoutRealloc(pos, v[index]): T&& temp = T(v[index]) is built
\* before any element is shifted.
EmplaceWithoutReallocOfElement(m, v, pos, index, ctor) ==
    LET size == Size(m, v)
        new_size == size + 1
        offset == pos
        data == Buffer(m, v)
    IN IF pos = size
       THEN LET m1 == ConstructAt(m, data, size, Slot(m, data, index), CtorMayThrow(ctor))
            IN IF ~Ok(m1) THEN m1
               ELSE Returning([TakenFrom(m1, data, index, ctor)
                                   EXCEPT !.vec[v].size_ = new_size], offset)
       ELSE IF Fails(m, CtorMayThrow(ctor)) THEN Throw(m, "throw")
            ELSE LET temp == Slot(m, data, index)
                     m1 == TakenFrom([m EXCEPT !.k = Count(m, CtorMayThrow(ctor))],
                                     data, index, ctor)
                     m2 == ConstructAt(m1, data, size, Slot(m1, data, size - 1),
                                       ~is_nothrow_move_constructible_v)
                 IN IF ~Ok(m2) THEN m2
                    ELSE LET m3 == move_backward(
                                     [m2 EXCEPT !.heap[data].slots[size] = MovedFrom],
                                     data, offset, size - 1, size)
                         IN IF ~Ok(m3) THEN m3
                            ELSE LET m4 == AssignAt(m3, data, offset, temp,
                                                    ~is_nothrow_move_constructible_v)
                                 IN IF ~Ok(m4) THEN m4
                                    ELSE Returning([m4 EXCEPT !.vec[v].size_ = new_size],
                                                   offset)

\* v.Insert(v.begin() + pos, v[index]) ("copy") and
\* v.Insert(v.begin() + pos, std::move(v[index])) ("move")
InsertOfElement(m, v, pos, index, ctor) ==
    IF Size(m, v) = Capacity(m, v)
    THEN EmplaceWithReallocOfElement(m, v, pos, index, ctor)
    ELSE EmplaceWithoutReallocOfElement(m, v, pos, index, ctor)

\* ------------------------------------------------------------- the actions
Impure == [pure |-> FALSE, log |-> <<>>]
Fresh == [pure |-> TRUE, log |-> <<>>]

Faults == 0..MaxFault
Ctors == {"copy", "move"}
\* The constructors a call can select for T.
Usable(ctor) == ctor = "copy" => is_copy_constructible_v

Outcomes == {"none", "throw", "badalloc"}

\* The call has run to its end, by returning or by an exception leaving it.
\* (The guards "fault <= ..." of the actions only say how many fallible steps
\* a call can reach at most.)
\* The fault asked for has happened (m.k = 0), the call ended in one of the
\* ways run.ends, and the heap it leaves is within the bound.  The history h
\* is kept when run.logs.
Done(m, h, run) ==
    /\ m.k = 0
    /\ m.exc \in run.ends
    /\ UsedSlots(m.heap) <= MaxCap
    /\ heap' = m.heap
    /\ vec' = m.vec
    /\ ttype' = ttype
    /\ hist' = IF run.logs THEN h ELSE hist

\* Vector v;
CallDefaultConstruct(v, run) ==
    /\ ~vec[v].alive
    /\ Done([Start(0) EXCEPT !.vec[v] = [alive |-> TRUE, data_ |-> EmptyRawMemory,
                                         size_ |-> 0]],
            [hist EXCEPT ![v] = Fresh], run)

\* Vector v(n);
CallSizedConstruct(v, n, fault, run) ==
    /\ ~vec[v].alive
    /\ fault <= 1 + n
    /\ LET m == SizedConstructor(Start(fault), n)
       IN Done(Returning(IF Ok(m) THEN [m EXCEPT !.vec[v] = m.ret] ELSE m, 0),
               [hist EXCEPT ![v] = Impure], run)

\* Vector v(other);
CallCopyConstruct(v, other, fault, run) ==
    /\ ~vec[v].alive
    /\ vec[other].alive
    /\ fault <= 1 + vec[other].size_
    /\ is_copy_constructible_v
    /\ LET m == CopyConstructor(Start(fault), vec[other])
       IN Done(Returning(IF Ok(m) THEN [m EXCEPT !.vec[v] = m.ret] ELSE m, 0),
               [hist EXCEPT ![v] = Impure], run)

\* Vector v(std::move(other));
CallMoveConstruct(v, other, run) ==
    /\ ~vec[v].alive
    /\ vec[other].alive
    /\ Done(MoveConstructor(Start(0), v, other),
            [hist EXCEPT ![v] = Impure, ![other] = Impure], run)

\* v goes out of scope.
CallDestroy(v, run) ==
    /\ vec[v].alive
    /\ Done([Destructor(Start(0), vec[v]) EXCEPT !.vec[v] = DeadVector],
            [hist EXCEPT ![v] = Impure], run)

\* v = rhs;
CallCopyAssign(v, rhs, fault, run) ==
    /\ vec[v].alive
    /\ vec[rhs].alive
    /\ fault <= 1 + vec[rhs].size_
    /\ is_copy_constructible_v
    /\ Done(Returning(CopyAssignment(Start(fault), v, rhs), 0),
            [hist EXCEPT ![v] = Impure], run)

\* v = std::move(rhs);
CallMoveAssign(v, rhs, run) ==
    /\ vec[v].alive
    /\ vec[rhs].alive
    /\ Done(MoveAssignment(Start(0), v, rhs),
            [hist EXCEPT ![v] = Impure, ![rhs] = Impure], run)

\* v.Swap(other);
CallSwap(v, other, run) ==
    /\ vec[v].alive
    /\ vec[other].alive
    /\ Done(Swap(Start(0), v, other),
            [hist EXCEPT ![v] = Impure, ![other] = Impure], run)

\* v.Reserve(n);
CallReserve(v, n, fault, run) ==
    /\ vec[v].alive
    /\ fault <= 1 + vec[v].size_
    /\ Done(Returning(Reserve(Start(fault), v, n), 0),
            [hist EXCEPT ![v] = Impure], run)

\* v.Resize(n);
CallResize(v, n, fault, run) ==
    /\ vec[v].alive
    /\ fault <= 1 + n
    /\ Done(Returning(Resize(Start(fault), v, n), 0),
            [hist EXCEPT ![v] = Impure], run)

\* v.PopBack(); the caller checks that v is not empty.
CallPopBack(v, run) ==
    /\ vec[v].alive
    /\ vec[v].size_ > 0
    /\ Done(PopBack(Start(0), v),
            [hist EXCEPT ![v] = Impure], run)

\* v.Erase(v.begin() + pos); pos is a dereferenceable position.
CallErase(v, pos, fault, run) ==
    /\ vec[v].alive
    /\ pos < vec[v].size_
    /\ fault < vec[v].size_ - pos
    /\ Done(Erase(Start(fault), v, pos),
            [hist EXCEPT ![v] = Impure], run)

\* v.Emplace(v.begin() + pos, args...); begin() <= pos <= end().  Also
\* v.Insert(v.begin() + pos, value), by const T& or by T&&, which forwards
\* to Emplace.
CallEmplace(v, pos, val, ctor, fault, run) ==
    /\ vec[v].alive
    /\ pos <= vec[v].size_
    /\ fault <= 2 + vec[v].size_
    /\ Usable(ctor)
    /\ Done(Emplace(Start(fault), v, pos, val, ctor),
            [hist EXCEPT ![v] = Impure], run)

\* v.PushBack(value), by const T& or by T&&.  Also v.EmplaceBack(args...),
\* to which PushBack forwards.  An append that returns is recorded in hist.
CallPushBack(v, val, ctor, fault, run) ==
    /\ vec[v].alive
    /\ fault <= 2 + vec[v].size_
    /\ Usable(ctor)
    /\ LET m == PushBack(Start(fault), v, val, ctor)
       IN Done(m,
               IF Ok(m) /\ hist[v].pure
               THEN [hist EXCEPT ![v].log = Append(@, val)]
               ELSE [hist EXCEPT ![v] = Impure],
               run)

Init ==
    /\ heap = [a \in Addr |-> FreeRegion]
    /\ vec = [v \in Vec |-> [alive |-> TRUE, data_ |-> EmptyRawMemory, size_ |-> 0]]
    /\ ttype \in ElemTypes
    /\ hist = [v \in Vec |-> Fresh]

\* The calls a program can make, the fallible steps failing as F allows and
\* the calls ending as run.ends allows.
Calls(F, run) ==
    \E v \in Vec :
        \/ CallDefaultConstruct(v, run)
        \/ \E n \in 0..MaxCap, fault \in F : CallSizedConstruct(v, n, fault, run)
        \/ \E other \in Vec, fault \in F : CallCopyConstruct(v, other, fault, run)
        \/ \E other \in Vec : CallMoveConstruct(v, other, run)
        \/ CallDestroy(v, run)
        \/ \E rhs \in Vec, fault \in F : CallCopyAssign(v, rhs, fault, run)
        \/ \E rhs \in Vec : CallMoveAssign(v, rhs, run)
        \/ \E other \in Vec : CallSwap(v, other, run)
        \/ \E n \in 0..MaxCap, fault \in F : CallReserve(v, n, fault, run)
        \/ \E n \in 0..MaxCap, fault \in F : CallResize(v, n, fault, run)
        \/ CallPopBack(v, run)
        \/ \E pos \in 0..MaxCap, fault \in F : CallErase(v, pos, fault, run)
        \/ \E pos \in 0..MaxCap, val \in Values, ctor \in Ctors, fault \in F :
               CallEmplace(v, pos, val, ctor, fault, run)
        \/ \E val \in Values, ctor \in Ctors, fault \in F :
               CallPushBack(v, val, ctor, fault, run)

\* Any call, completing or failing.
Next == Calls(Faults, [ends |-> Outcomes, logs |-> FALSE])

Spec == Init /\ [][Next]_vars

\* Only the calls that complete: no fallible step fails and no allocation is
\* refused.  These behaviours keep the history of the appends.
NextOK == Calls({0}, [ends |-> {"none"}, logs |-> TRUE])

SpecOK == Init /\ [][NextOK]_vars

\* ------------------------------------------------------ what the claims use
\* The elements of the Vector object x in the heap h, front to back.
ElemsIn(h, x) == [i \in 1..x.size_ |-> h[x.data_.buffer_].slots[i]]
Elems(v) == ElemsIn(heap, vec[v])
ElemsOf(m, v) == ElemsIn(m.heap, m.vec[v])

\* The invariant of a Vector object x in the heap h: 0 <= size_ <= capacity_,
\* its buffer is an allocated region of capacity_ slots (none when capacity_
\* is 0), the slots [0, size_) hold constructed elements and the slots
\* [size_, capacity_) hold none.
Valid(h, x) ==
    /\ 0 <= x.size_
    /\ x.size_ <= x.data_.capacity_
    /\ IF x.data_.buffer_ = Null
       THEN x.data_.capacity_ = 0
       ELSE /\ h[x.data_.buffer_].alloc
            /\ Len(h[x.data_.buffer_].slots) = x.data_.capacity_
            /\ x.data_.capacity_ > 0
            /\ \A i \in 1..x.data_.capacity_ :
                   (h[x.data_.buffer_].slots[i] # Raw) <=> (i <= x.size_)

AllValid(h, vs) == \A v \in Vec : vs[v].alive => Valid(h, vs[v])

InsertAt(s, p, x) == SubSeq(s, 1, p) \o <<x>> \o SubSeq(s, p + 1, Len(s))
RemoveAt(s, p) == SubSeq(s, 1, p) \o SubSeq(s, p + 2, Len(s))

\* ------------------------------------------------------------------ claims
\* C1: in every state that calls which all complete can reach, each Vector
\* has 0 <= length <= capacity, exactly the slots [0, length) of its buffer
\* hold live elements and the slots [length, capacity) hold none.
C1_Invariant == AllValid(heap, vec)

\* A Vector whose capacity exceeds its size, next to a second Vector that
\* holds an element.
C1_Witness ==
    /\ vec[1].alive /\ vec[2].alive
    /\ vec[1].size_ = 2 /\ vec[1].data_.capacity_ = 3
    /\ vec[2].size_ = 1
    /\ Valid(heap, vec[1])

\* The constructed elements in all regions of the heap h.
LiveTotal(h) ==
    LET RECURSIVE Sum(_)
        Sum(a) == IF a = 0 THEN 0 ELSE LiveCount(h[a].slots) + Sum(a - 1)
    IN Sum(NumAddr)

Alive == {v \in Vec : vec[v].alive}
Dead == {v \in Vec : ~vec[v].alive}
UsableCtors == {c \in Ctors : Usable(c)}
\* Every fallible step a call can reach: an allocation, the construction of
\* the new element, and one copy, move or value construction per element.
RealFaults == 1..(MaxCap + 2)

StillValid(m) == m.exc = "throw" => AllValid(m.heap, m.vec) /\ ~m.dd

\* C2: after a mutating call (sized or copy construction, copy assignment,
\* Reserve, Resize, Emplace/Insert/PushBack, Erase) fails because an element
\* constructor or assignment throws, whichever fallible step it is, every
\* Vector still satisfies its invariant (length <= capacity, the slots
\* [0, length) live, no slot of [length, capacity) left holding a constructed
\* element) and no slot was destroyed twice.
C2_Claim ==
    AllValid(heap, vec) =>
        /\ \A n \in 0..MaxCap, f \in RealFaults :
               StillValid(SizedConstructor(Start(f), n))
        /\ \A v \in Alive, n \in 0..MaxCap, f \in RealFaults :
               /\ StillValid(Reserve(Start(f), v, n))
               /\ StillValid(Resize(Start(f), v, n))
        /\ \A v \in Alive, f \in RealFaults :
               /\ \A pos \in 0..(vec[v].size_ - 1) : StillValid(Erase(Start(f), v, pos))
               /\ \A pos \in 0..vec[v].size_, val \in Values, c \in UsableCtors :
                      StillValid(Emplace(Start(f), v, pos, val, c))
        /\ is_copy_constructible_v =>
               \A r \in Alive, f \in RealFaults :
                   /\ StillValid(CopyConstructor(Start(f), vec[r]))
                   /\ \A v \in Alive : StillValid(CopyAssignment(Start(f), v, r))

\* C3, as claimed: when an element constructor throws during the growth of
\* Reserve(n), n > capacity, the length and the elements [0, length) are as
\* before the call and no element is lost or duplicated.
ReserveKeepsElements(v, n, f) ==
    LET m == Reserve(Start(f), v, n)
    IN m.exc = "throw" =>
           /\ Size(m, v) = vec[v].size_
           /\ ElemsOf(m, v) = Elems(v)
           /\ m.leaked = 0 /\ ~m.dd
           /\ LiveTotal(m.heap) = LiveTotal(heap)

C3_Claim ==
    \A v \in Alive, n \in 0..MaxCap, f \in RealFaults :
        n > vec[v].data_.capacity_ => ReserveKeepsElements(v, n, f)

\* C3, amended: the same when T is copy-constructible, so that a relocation
\* that can throw copies.
C3_Theorem ==
    is_copy_constructible_v =>
        \A v \in Alive, n \in 0..MaxCap, f \in RealFaults :
            n > vec[v].data_.capacity_ => ReserveKeepsElements(v, n, f)

\* Reserve fails at the copy of the second of two elements, the first of
\* which is not in the moved-from state.
C3_Witness ==
    /\ ttype = "ThrowingMove"
    /\ \E v \in Alive :
        /\ vec[v].size_ = 2
        /\ Elems(v)[1] # MovedFrom
        /\ Valid(heap, vec[v])
        /\ Reserve(Start(3), v, vec[v].data_.capacity_ + 1).exc = "throw"

\* C4, as claimed: when Emplace reallocates (length = capacity) and the
\* construction of the new element or a relocation throws, the Vector's
\* length, capacity, buffer and element values are those before the call.
EmplaceKeepsVector(v, pos, val, c, f) ==
    LET m == Emplace(Start(f), v, pos, val, c)
    IN m.exc = "throw" =>
           /\ m.vec[v] = vec[v]
           /\ vec[v].data_.buffer_ # Null =>
                  m.heap[vec[v].data_.buffer_] = heap[vec[v].data_.buffer_]

C4_Claim ==
    \A v \in Alive, val \in Values, c \in UsableCtors, f \in RealFaults :
        vec[v].size_ = vec[v].data_.capacity_ =>
            \A pos \in 0..vec[v].size_ : EmplaceKeepsVector(v, pos, val, c, f)

\* C4, amended: the same when T is copy-constructible.
C4_Theorem ==
    is_copy_constructible_v =>
        \A v \in Alive, val \in Values, c \in UsableCtors, f \in RealFaults :
            vec[v].size_ = vec[v].data_.capacity_ =>
                \A pos \in 0..vec[v].size_ : EmplaceKeepsVector(v, pos, val, c, f)

\* A full Vector of two elements and an insertion in the middle that fails
\* while the suffix is copied, after the prefix has been.
C4_Witness ==
    /\ ttype = "ThrowingMove"
    /\ \E v \in Alive :
        /\ vec[v].size_ = 2 /\ vec[v].data_.capacity_ = 2
        /\ Elems(v)[1] # MovedFrom
        /\ Valid(heap, vec[v])
        /\ Emplace(Start(4), v, 1, 1, "copy").exc = "throw"

\* C5: an insertion of val at pos (0 <= pos <= length) that returns, with or
\* without reallocation, leaves length + 1 elements: those formerly at
\* [0, pos) where they were, val at pos, those formerly at [pos, length) at
\* [pos + 1, length + 1) in the same order; the iterator returned is
\* begin() + pos.
C5_Theorem ==
    \A v \in Alive, val \in Values, c \in UsableCtors :
        \A pos \in 0..vec[v].size_ :
            LET m == Insert(Start(0), v, pos, val, c)
            IN Ok(m) =>
                   /\ Size(m, v) = vec[v].size_ + 1
                   /\ ElemsOf(m, v) = InsertAt(Elems(v), pos, val)
                   /\ m.ret = pos

\* A full Vector (the insertion reallocates) next to one of two different
\* elements with a spare slot (the insertion at the front shifts both).
C5_Witness ==
    \E v \in Alive, w \in Alive :
        /\ vec[v].size_ = 1 /\ vec[v].data_.capacity_ = 1
        /\ vec[w].size_ = 2 /\ vec[w].data_.capacity_ = 3
        /\ Elems(w) = <<1, 0>>
        /\ Ok(Insert(Start(0), v, 0, 1, "move"))
        /\ ElemsOf(Insert(Start(0), w, 0, 1, "move"), w) = <<1, 1, 0>>

\* C6: an Erase at pos (0 <= pos < length) that returns leaves length - 1
\* elements: those formerly at [0, pos) where they were and those formerly
\* after pos one index lower, in the same order; buffer and capacity are
\* unchanged; the iterator returned is begin() + pos, which is end() when the
\* last element was erased.
C6_Theorem ==
    \A v \in Alive :
        \A pos \in 0..(vec[v].size_ - 1) :
            LET m == Erase(Start(0), v, pos)
            IN Ok(m) =>
                   /\ Size(m, v) = vec[v].size_ - 1
                   /\ ElemsOf(m, v) = RemoveAt(Elems(v), pos)
                   /\ m.vec[v].data_ = vec[v].data_
                   /\ m.ret = pos
                   /\ pos = vec[v].size_ - 1 => m.ret = Size(m, v)

\* The first of three elements is erased and the two after it move down.
C6_Witness ==
    \E v \in Alive :
        /\ Elems(v) = <<1, 0, 1>>
        /\ Ok(Erase(Start(0), v, 0))
        /\ ElemsOf(Erase(Start(0), v, 0), v) = <<0, 1>>

\* C7: a Vector that was default-constructed and has since seen only appends
\* that returned, k of them, has Size() = k and holds the appended values in
\* the order of the appends.
C7_Theorem ==
    \A v \in Alive :
        hist[v].pure =>
            /\ vec[v].size_ = Len(hist[v].log)
            /\ Elems(v) = hist[v].log

\* Three appends of values that differ.
C7_Witness ==
    \E v \in Alive : hist[v].pure /\ hist[v].log = <<1, 0, 1>>

SmallestPowerOfTwo(k) ==
    LET RECURSIVE From(_)
        From(p) == IF p >= k THEN p ELSE From(2 * p)
    IN From(1)

\* C8: a default-constructed Vector that has seen only appends, k of them,
\* has capacity 0 when k = 0 and else the smallest power of two >= k; and an
\* append that returns leaves the capacity max(1, 2 * length) when it found
\* length = capacity, and unchanged otherwise.
C8_Theorem ==
    /\ \A v \in Alive :
           hist[v].pure =>
               vec[v].data_.capacity_ = IF Len(hist[v].log) = 0 THEN 0
                                        ELSE SmallestPowerOfTwo(Len(hist[v].log))
    /\ \A v \in Alive, val \in Values, c \in UsableCtors :
           LET m == PushBack(Start(0), v, val, c)
               length == vec[v].size_
           IN Ok(m) =>
                  Capacity(m, v) = IF length = vec[v].data_.capacity_
                                   THEN (IF 2 * length > 1 THEN 2 * length ELSE 1)
                                   ELSE vec[v].data_.capacity_

\* Three appends have taken the capacity through 1 and 2 to 4.
C8_Witness ==
    \E v \in Alive :
        /\ hist[v].pure /\ Len(hist[v].log) = 3
        /\ vec[v].data_.capacity_ = 4

\* C9: Vector b(std::move(a)) gives b the length, capacity, buffer and
\* elements of a, touches no element, and leaves a with length 0, capacity 0
\* and a null buffer, in which state a satisfies the invariant, can be
\* appended to and can be destroyed.
C9_Theorem ==
    \A a \in Alive, b \in Dead :
        LET m == MoveConstructor(Start(0), b, a)
            d == Destructor(m, m.vec[a])
        IN /\ m.vec[b] = vec[a]
           /\ ElemsOf(m, b) = Elems(a)
           /\ m.heap = heap
           /\ m.leaked = 0
           /\ m.vec[a].size_ = 0
           /\ m.vec[a].data_ = EmptyRawMemory
           /\ Valid(m.heap, m.vec[a])
           /\ d.heap = heap /\ ~d.dd /\ d.leaked = 0
           /\ \A val \in Values :
                  LET p == PushBack(m, a, val, "move")
                  IN Ok(p) => ElemsOf(p, a) = <<val>> /\ ElemsOf(p, b) = Elems(a)

\* A Vector of two elements and spare capacity is moved from.
C9_Witness ==
    \E a \in Alive, b \in Dead :
        /\ vec[a].size_ = 2 /\ vec[a].data_.capacity_ = 3
        /\ Valid(heap, vec[a])
        /\ MoveConstructor(Start(0), b, a).vec[b].size_ = 2

\* C10: a = std::move(b), a and b distinct, leaves a with the length,
\* capacity, buffer and elements b had and b with length 0 and capacity 0;
\* every element a held has been destroyed and the region a held has been
\* released.
C10_Claim ==
    \A a \in Alive, b \in Alive :
        a # b =>
            LET m == MoveAssignment(Start(0), a, b)
                old == vec[a].data_.buffer_
            IN /\ m.vec[a] = vec[b]
               /\ ElemsOf(m, a) = Elems(b)
               /\ m.vec[b].size_ = 0
               /\ m.vec[b].data_ = EmptyRawMemory
               /\ m.leaked = 0
               /\ old # Null => ~m.heap[old].alloc

\* The RawMemory instances (the data_ of the Vector objects alive) whose
\* buffer_ is the region at a.
Owners(h, vs, a) == {v \in Vec : vs[v].alive /\ vs[v].data_.buffer_ = a}

\* C11: between any two calls each region that is allocated and not released
\* is the buffer_ of exactly one RawMemory; and move construction, move
\* assignment and Swap leave the set of allocated regions as it was, each
\* owned by exactly one RawMemory, the moved-from RawMemory holding nullptr
\* and capacity 0.
C11_Claim ==
    /\ \A a \in Addr : heap[a].alloc => Cardinality(Owners(heap, vec, a)) = 1
    /\ \A v \in Alive, w \in Alive :
           v # w =>
               LET m == MoveAssignment(Start(0), v, w)
               IN /\ m.vec[w].data_ = EmptyRawMemory
                  /\ \A a \in Addr :
                         m.heap[a].alloc => Cardinality(Owners(m.heap, m.vec, a)) = 1

\* The part of C11 that the code keeps: no region has two owners, and a
\* region without an owner is one that a move assignment has dropped.
C11_NeverTwoOwners ==
    \A a \in Addr :
        heap[a].alloc =>
            /\ Cardinality(Owners(heap, vec, a)) <= 1
            /\ Owners(heap, vec, a) = {} => heap[a] = LostRegion

\* What Vector c(s) leaves when it returns: the new object is c.
CopyOf(s, c) ==
    LET m == CopyConstructor(Start(0), vec[s])
    IN IF Ok(m) THEN [m EXCEPT !.vec[c] = m.ret] ELSE m

\* The Vector s is in m as it is in the present state.
Untouched(m, s) ==
    /\ m.vec[s] = vec[s]
    /\ ElemsOf(m, s) = Elems(s)

\* C12: Vector c(s), s of length n, when it returns leaves c with length n,
\* capacity n and the elements of s in order, and s as it was; and whatever
\* is then done to c (PushBack, Insert, Erase, Resize, a write to an
\* element), returning or failing at any step, s keeps its length, capacity,
\* buffer and elements.
C12_Theorem ==
    is_copy_constructible_v =>
        \A s \in Alive, c \in Dead :
            LET m == CopyOf(s, c)
                n == vec[s].size_
            IN Ok(m) =>
                   /\ Size(m, c) = n
                   /\ Capacity(m, c) = n
                   /\ ElemsOf(m, c) = Elems(s)
                   /\ Untouched(m, s)
                   /\ \A f \in 0..(MaxCap + 2), val \in Values :
                          LET m0 == [m EXCEPT !.k = f]
                          IN /\ \A ct \in UsableCtors :
                                    /\ Untouched(PushBack(m0, c, val, ct), s)
                                    /\ \A pos \in 0..n :
                                           Untouched(Insert(m0, c, pos, val, ct), s)
                             /\ \A pos \in 0..(n - 1) :
                                    /\ Untouched(Erase(m0, c, pos), s)
                                    /\ Untouched(WriteAt(m0, c, pos, val), s)
                             /\ \A k \in 0..MaxCap : Untouched(Resize(m0, c, k), s)

\* A Vector of two elements and capacity 3 is copied; the copy has capacity
\* 2, and an element of the copy is overwritten with another value.
C12_Witness ==
    /\ is_copy_constructible_v
    /\ \E s \in Alive, c \in Dead :
           /\ Elems(s) = <<1, 0>>
           /\ vec[s].data_.capacity_ = 3
           /\ Ok(CopyOf(s, c))
           /\ Capacity(CopyOf(s, c), c) = 2
           /\ ElemsOf(WriteAt(CopyOf(s, c), c, 0, 0), c) = <<0, 0>>

\* The regions of the heap h that are allocated.
Allocated(h) == {x \in Addr : h[x].alloc}

\* C13: for a copy-constructible T and distinct a and b, a = b when it
\* returns leaves a with the length and the elements of b, and b as it was,
\* also when it fails.  When b's length exceeds a's capacity, a gets a new
\* buffer of capacity b's length and its old region is released, and a
\* failure at any step leaves a's length, capacity, buffer and elements as
\* they were.  Otherwise a keeps its buffer and capacity and no region is
\* allocated or released; no element is constructed over a live one and none
\* destroyed that was not live, so the common prefix is assigned and only the
\* tail is destroyed or constructed.  a = a changes nothing and cannot fail.
C13_Theorem ==
    is_copy_constructible_v =>
        \A a \in Alive, b \in Alive, f \in 0..(MaxCap + 2) :
            LET m == CopyAssignment(Start(f), a, b)
                old == vec[a].data_.buffer_
            IN IF a = b
               THEN m.vec = vec /\ m.heap = heap /\ Ok(m)
               ELSE /\ Untouched(m, b)
                    /\ Ok(m) => /\ Size(m, a) = vec[b].size_
                                /\ ElemsOf(m, a) = Elems(b)
                    /\ IF vec[b].size_ > vec[a].data_.capacity_
                       THEN /\ ~Ok(m) => /\ Untouched(m, a)
                                         /\ Allocated(m.heap) = Allocated(heap)
                            /\ Ok(m) => /\ Capacity(m, a) = vec[b].size_
                                        /\ Buffer(m, a) # old
                                        /\ old # Null => ~m.heap[old].alloc
                       ELSE /\ m.vec[a].data_ = vec[a].data_
                            /\ Allocated(m.heap) = Allocated(heap)
                            /\ Valid(heap, vec[a]) => m.leaked = 0 /\ ~m.dd

\* a = <<1>> with capacity 1 and b = <<0, 1>>: a = b reallocates, and fails
\* at the copy of the second element or returns; b = a reuses the storage of
\* b and destroys its tail.
C13_Witness ==
    /\ is_copy_constructible_v
    /\ \E a \in Alive, b \in Alive :
           /\ Elems(a) = <<1>> /\ vec[a].data_.capacity_ = 1
           /\ Elems(b) = <<0, 1>>
           /\ Valid(heap, vec[a]) /\ Valid(heap, vec[b])
           /\ CopyAssignment(Start(3), a, b).exc = "throw"
           /\ ElemsOf(CopyAssignment(Start(0), a, b), a) = <<0, 1>>
           /\ ElemsOf(CopyAssignment(Start(0), b, a), b) = <<1>>

\* C14: Reserve(n) with n <= capacity changes nothing (length, capacity,
\* buffer, elements, heap) and cannot fail; Reserve(n) with n > capacity that
\* returns leaves capacity n and the length and the elements as they were;
\* and after a Reserve(n) that returned, Reserve(n2) with n2 <= n changes
\* nothing.
C14_Theorem ==
    \A v \in Alive, n \in 0..(MaxCap + 1) :
        /\ n <= vec[v].data_.capacity_ =>
               \A f \in 0..(MaxCap + 2) :
                   LET m == Reserve(Start(f), v, n)
                   IN Ok(m) /\ m.vec = vec /\ m.heap = heap
        /\ LET m == Reserve(Start(0), v, n)
           IN Ok(m) =>
                  /\ n > vec[v].data_.capacity_ => Capacity(m, v) = n
                  /\ Size(m, v) = vec[v].size_
                  /\ ElemsOf(m, v) = Elems(v)
                  /\ \A n2 \in 0..n : Reserve(m, v, n2) = m

\* Two elements in a full buffer of capacity 2: Reserve(3) gives capacity 3,
\* a Reserve(2) after it leaves capacity 3, and Reserve(2) at once is a no-op.
C14_Witness ==
    \E v \in Alive :
        /\ Elems(v) = <<1, 0>> /\ vec[v].data_.capacity_ = 2
        /\ Ok(Reserve(Start(0), v, 3))
        /\ Capacity(Reserve(Reserve(Start(0), v, 3), v, 2), v) = 3
        /\ Reserve(Start(0), v, 2).heap = heap

\* A Vector<int>-like run on the empty Vector v: PushBack 1, 2, 3;
\* Resize(5); Resize(2); Insert 99 at position 1; Erase position 0.  step[i]
\* is what the i-th call leaves.
Scenario(v) ==
    LET s1 == PushBack(Start(0), v, 1, "move")
        s2 == PushBack(s1, v, 2, "move")
        s3 == PushBack(s2, v, 3, "move")
        s4 == Resize(s3, v, 5)
        s5 == Resize(s4, v, 2)
        s6 == Insert(s5, v, 1, 99, "move")
        s7 == Erase(s6, v, 0)
    IN <<s1, s2, s3, s4, s5, s6, s7>>

\* C15: Resize(n) that returns, on a Vector of length len: for n <= len it
\* leaves length n, the first n elements as they were, the elements after
\* them destroyed (their slots raw), buffer and capacity as they were; for
\* n > len it leaves length n, the first len elements as they were, the
\* elements [len, n) value-initialized and capacity max(old capacity, n).
\* And on an empty Vector: PushBack 1, 2, 3; Resize(5) gives
\* [1, 2, 3, T(), T()]; Resize(2) gives [1, 2]; Insert 99 at position 1 gives
\* [1, 99, 2]; Erase position 0 gives [99, 2].
C15_Theorem ==
    /\ \A v \in Alive, n \in 0..(MaxCap + 1) :
           LET m == Resize(Start(0), v, n)
               len == vec[v].size_
               cap == vec[v].data_.capacity_
           IN Ok(m) =>
                  /\ Size(m, v) = n
                  /\ IF n <= len
                     THEN /\ ElemsOf(m, v) = SubSeq(Elems(v), 1, n)
                          /\ m.vec[v].data_ = vec[v].data_
                          /\ Valid(heap, vec[v]) =>
                                 /\ Valid(m.heap, m.vec[v])
                                 /\ m.leaked = 0 /\ ~m.dd
                     ELSE /\ ElemsOf(m, v) = Elems(v) \o [i \in 1..(n - len) |-> Default]
                          /\ Capacity(m, v) = IF cap > n THEN cap ELSE n
    /\ \A v \in Alive :
           (vec[v].size_ = 0 /\ vec[v].data_ = EmptyRawMemory /\ Ok(Scenario(v)[7])) =>
               /\ ElemsOf(Scenario(v)[3], v) = <<1, 2, 3>>
               /\ ElemsOf(Scenario(v)[4], v) = <<1, 2, 3, Default, Default>>
               /\ ElemsOf(Scenario(v)[5], v) = <<1, 2>>
               /\ ElemsOf(Scenario(v)[6], v) = <<1, 99, 2>>
               /\ ElemsOf(Scenario(v)[7], v) = <<99, 2>>

\* A Vector <<1, 1>> of capacity 3 that Resize(4) grows past its capacity,
\* Resize(3) grows within it and Resize(1) shrinks, next to an empty Vector
\* on which the run of seven calls returns.
C15_Witness ==
    \E v \in Alive, w \in Alive :
        /\ Elems(v) = <<1, 1>> /\ vec[v].data_.capacity_ = 3
        /\ Valid(heap, vec[v])
        /\ ElemsOf(Resize(Start(0), v, 4), v) = <<1, 1, 0, 0>>
        /\ Capacity(Resize(Start(0), v, 3), v) = 3
        /\ ElemsOf(Resize(Start(0), v, 1), v) = <<1>>
        /\ vec[w].size_ = 0 /\ vec[w].data_ = EmptyRawMemory
        /\ Ok(Scenario(w)[7])
        /\ Size(Scenario(w)[7], w) = 2

\* If std::bad_alloc left the call that m is the end of, the call has changed
\* neither a Vector nor the heap.
NothingTouched(m) == m.exc = "badalloc" => (m.vec = vec /\ m.heap = heap)

\* C16: when operator new refuses the storage that Reserve, Resize, an
\* Emplace/Insert/PushBack at length = capacity or a reallocating copy
\* assignment asks for, std::bad_alloc leaves the call, and every Vector and
\* the heap are as before the call.  The allocation is the first fallible
\* step of each of these calls (fault 1).
C16_Theorem ==
    \A v \in Alive :
        /\ \A f \in 0..(MaxCap + 2) :
               /\ \A n \in 0..(MaxCap + 1) :
                      /\ NothingTouched(Reserve(Start(f), v, n))
                      /\ NothingTouched(Resize(Start(f), v, n))
               /\ \A val \in Values, c \in UsableCtors :
                      /\ NothingTouched(PushBack(Start(f), v, val, c))
                      /\ \A pos \in 0..vec[v].size_ :
                             NothingTouched(Insert(Start(f), v, pos, val, c))
               /\ is_copy_constructible_v =>
                      \A r \in Alive : NothingTouched(CopyAssignment(Start(f), v, r))
        /\ \A n \in (vec[v].data_.capacity_ + 1)..(MaxCap + 1) :
               /\ Reserve(Start(1), v, n).exc = "badalloc"
               /\ Resize(Start(1), v, n).exc = "badalloc"
        /\ vec[v].size_ = vec[v].data_.capacity_ =>
               \A val \in Values, c \in UsableCtors, pos \in 0..vec[v].size_ :
                   Insert(Start(1), v, pos, val, c).exc = "badalloc"
        /\ is_copy_constructible_v =>
               \A r \in Alive :
                   vec[r].size_ > vec[v].data_.capacity_ =>
                       CopyAssignment(Start(1), v, r).exc = "badalloc"

\* A full Vector <<1, 0>> of capacity 2 and a Vector of capacity 1: the
\* allocation is refused to Reserve(3), to Resize(3), to an insertion in the
\* middle and to the assignment of the first Vector to the second.
C16_Witness ==
    /\ is_copy_constructible_v
    /\ \E v \in Alive, w \in Alive :
           /\ Elems(v) = <<1, 0>> /\ vec[v].data_.capacity_ = 2
           /\ vec[w].size_ = 1 /\ vec[w].data_.capacity_ = 1
           /\ Reserve(Start(1), v, 3).exc = "badalloc"
           /\ Resize(Start(1), v, 3).exc = "badalloc"
           /\ Insert(Start(1), v, 1, 1, "copy").exc = "badalloc"
           /\ CopyAssignment(Start(1), w, v).exc = "badalloc"

\* The steps of EmplaceWithRealloc at pos that can fail, by their index:
\* 1 the allocation, 2 the construction of the new element, 3 .. pos + 2 the
\* relocations of the prefix, the later ones those of the suffix.
PrefixFaults(pos) == 3..(pos + 2)
SuffixFaults(v, pos) == (pos + 3)..(vec[v].size_ + 2)

\* The call that left m released no region that held a constructed element,
\* constructed no element over a live one and destroyed no slot twice.
CleanedUp(m) == m.leaked = 0 /\ ~m.dd

\* C17: when an Emplace at length = capacity fails in the relocation of the
\* prefix or of the suffix, the new element and every element already
\* relocated have been destroyed, once each, when the new buffer is released.
C17_Claim ==
    \A v \in Alive, val \in Values, c \in UsableCtors :
        (vec[v].size_ = vec[v].data_.capacity_ /\ Valid(heap, vec[v])) =>
            \A pos \in 0..vec[v].size_ :
                \A f \in PrefixFaults(pos) \cup SuffixFaults(v, pos) :
                    LET m == Emplace(Start(f), v, pos, val, c)
                    IN m.exc = "throw" => CleanedUp(m)

\* The part of C17 that the code keeps: a failure in the relocation of the
\* prefix leaves nothing constructed in the buffer that is released, and a
\* failure in the relocation of the suffix leaves exactly one element, the
\* new one.
C17_OnlyNewElementLeft ==
    \A v \in Alive, val \in Values, c \in UsableCtors :
        (vec[v].size_ = vec[v].data_.capacity_ /\ Valid(heap, vec[v])) =>
            \A pos \in 0..vec[v].size_ :
                /\ \A f \in PrefixFaults(pos) :
                       LET m == Emplace(Start(f), v, pos, val, c)
                       IN m.exc = "throw" => CleanedUp(m)
                /\ \A f \in SuffixFaults(v, pos) :
                       LET m == Emplace(Start(f), v, pos, val, c)
                       IN m.exc = "throw" => m.leaked = 1 /\ ~m.dd

\* C18: v.Insert(pos, v[index]) that returns, with or without reallocation,
\* leaves at index pos the value v[index] had before the call; when the
\* argument is copied the Vector is the one an insertion of that value gives,
\* and when it is moved from, the element it referred to is left moved-from.
C18_Theorem ==
    \A v \in Alive, c \in UsableCtors :
        \A pos \in 0..vec[v].size_, index \in 0..(vec[v].size_ - 1) :
            LET m == InsertOfElement(Start(0), v, pos, index, c)
                before == Elems(v)
                source == [i \in 1..vec[v].size_ |->
                              IF c = "move" /\ i = index + 1 THEN MovedFrom ELSE before[i]]
            IN Ok(m) =>
                   /\ Size(m, v) = vec[v].size_ + 1
                   /\ ElemsOf(m, v)[pos + 1] = before[index + 1]
                   /\ m.ret = pos
                   /\ ElemsOf(m, v) = InsertAt(source, pos, before[index + 1])

\* <<0, 1>> with a spare slot: the insertion of v[1] at the front shifts the
\* element the argument refers to; and a full <<0, 1>>, where the insertion
\* of v[1] at the front reallocates.
C18_Witness ==
    \E v \in Alive, w \in Alive :
        /\ Elems(v) = <<0, 1>> /\ vec[v].data_.capacity_ = 3
        /\ ElemsOf(InsertOfElement(Start(0), v, 0, 1, "move"), v) = <<1, 0, 0>>
        /\ vec[w].size_ = 1 /\ vec[w].data_.capacity_ = 1
        /\ Ok(InsertOfElement(Start(0), w, 0, 0, "move"))

\* The call has left the Vector v with the buffer and the capacity it had.
SameStorage(m, v) == m.vec[v].data_ = vec[v].data_
\* The call has left every Vector it was not made on with its buffer and
\* capacity.
OthersKeepStorage(m, touched) ==
    \A u \in Alive \ touched : m.vec[u].data_ = vec[u].data_
\* The call has given v a new buffer of a larger capacity, or has failed and
\* left v with the buffer and the capacity it had.
Grown(m, v) ==
    /\ Capacity(m, v) > vec[v].data_.capacity_
    /\ Buffer(m, v) # vec[v].data_.buffer_
GrownOrSame(m, v) == IF Ok(m) THEN Grown(m, v) ELSE SameStorage(m, v)

\* C19: PopBack, Erase, Resize(n) and Reserve(n) with n <= capacity, an
\* Emplace/Insert/PushBack at length < capacity and a copy assignment from a
\* source of length <= capacity leave the Vector with the same buffer and the
\* same capacity, whether they return or fail.  Reserve(n) with
\* n > capacity, an insertion at length = capacity and a copy assignment
\* from a longer source give it a new buffer of a larger capacity when they
\* return and leave both as they were when they fail; Resize(n) with
\* n > capacity does so when its Reserve(n) returns, also when a value
\* construction fails afterwards.  No call
\* changes the buffer or the capacity of a Vector other than the one it is
\* made on, except the move constructor, move assignment and Swap, which
\* change those of their two operands only.
C19_Theorem ==
    \A v \in Alive :
        LET size == vec[v].size_
            cap == vec[v].data_.capacity_
        IN /\ \A f \in 0..(MaxCap + 2) :
                  /\ size > 0 =>
                         LET m == PopBack(Start(f), v)
                         IN SameStorage(m, v) /\ OthersKeepStorage(m, {v})
                  /\ \A pos \in 0..(size - 1) :
                         LET m == Erase(Start(f), v, pos)
                         IN SameStorage(m, v) /\ OthersKeepStorage(m, {v})
                  /\ \A n \in 0..(MaxCap + 1) :
                         LET m == Resize(Start(f), v, n)
                             r == Reserve(Start(f), v, n)
                         IN /\ OthersKeepStorage(m, {v}) /\ OthersKeepStorage(r, {v})
                            /\ IF n <= cap
                               THEN SameStorage(m, v) /\ SameStorage(r, v)
                               ELSE /\ GrownOrSame(r, v)
                                    /\ IF Ok(r) THEN Grown(m, v) ELSE SameStorage(m, v)
                  /\ \A val \in Values, c \in UsableCtors :
                         /\ LET m == PushBack(Start(f), v, val, c)
                            IN /\ OthersKeepStorage(m, {v})
                               /\ IF size < cap THEN SameStorage(m, v)
                                                ELSE GrownOrSame(m, v)
                         /\ \A pos \in 0..size :
                                LET m == Insert(Start(f), v, pos, val, c)
                                IN /\ OthersKeepStorage(m, {v})
                                   /\ IF size < cap THEN SameStorage(m, v)
                                                    ELSE GrownOrSame(m, v)
                  /\ is_copy_constructible_v =>
                         /\ CopyConstructor(Start(f), vec[v]).vec = vec
                         /\ \A r \in Alive \ {v} :
                                LET m == CopyAssignment(Start(f), v, r)
                                IN /\ OthersKeepStorage(m, {v})
                                   /\ IF vec[r].size_ <= cap THEN SameStorage(m, v)
                                                             ELSE GrownOrSame(m, v)
           /\ SameStorage(CopyAssignment(Start(0), v, v), v)
           /\ \A w \in Vec \ {v} :
                  /\ OthersKeepStorage(MoveConstructor(Start(0), w, v), {v, w})
                  /\ w \in Alive =>
                         /\ OthersKeepStorage(MoveAssignment(Start(0), v, w), {v, w})
                         /\ OthersKeepStorage(Swap(Start(0), v, w), {v, w})

\* A Vector <<1, 0>> of capacity 3 next to a Vector of length 1: it keeps
\* its buffer under PopBack, Erase, Resize(3), an insertion and the
\* assignment of the other Vector, and gets a larger one from Reserve(4).
C19_Witness ==
    \E v \in Alive, w \in Alive :
        /\ Elems(v) = <<1, 0>> /\ vec[v].data_.capacity_ = 3
        /\ vec[w].size_ = 1 /\ w # v
        /\ SameStorage(PopBack(Start(0), v), v)
        /\ SameStorage(Erase(Start(0), v, 0), v)
        /\ SameStorage(Resize(Start(0), v, 3), v)
        /\ LET m == Insert(Start(0), v, 1, 1, "move")
           IN Ok(m) /\ Size(m, v) = 3 /\ SameStorage(m, v)
        /\ LET m == Reserve(Start(0), v, 4)
           IN Ok(m) /\ Capacity(m, v) = 4 /\ ~SameStorage(m, v)
        /\ is_copy_constructible_v =>
               LET m == CopyAssignment(Start(0), v, w)
               IN Ok(m) /\ Size(m, v) = 1 /\ SameStorage(m, v)

====
